---- MODULE Spec2Model ----
(***************************************************************************)
(* Presence and call-routing coordinator of the nurse/patient video call   *)
(* server (socket.io backend).  The model follows the "professional"       *)
(* server file: the state container `state`, its helper functions and the  *)
(* socket event handlers.  Node.js runs every handler to completion on one *)
(* thread and no handler awaits, so every handler is one atomic action.    *)
(*                                                                         *)
(* User ids are non-empty strings in the program; here they are the        *)
(* numbers 1..NumIds, and 0 stands for a missing / empty / undefined id.   *)
(* Socket ids are the numbers 1..NumSockets; a socket id is never reused   *)
(* after its disconnect (socket.io draws a fresh id per connection).  The   *)
(* 'connection' handler only logs and installs the handlers below, so a    *)
(* socket that is not yet closed counts as connected.  The program uses    *)
(* socket ids and user ids only as opaque keys, so sockets are numbered in *)
(* the order of their first event and user ids in the order of their first *)
(* registration.                                                           *)
(*                                                                         *)
(* Exploration is bounded in two ways.  A run holds at most MaxEvents      *)
(* events.  And a run is not extended after an event that left `state`     *)
(* and the set of open sockets untouched (a rejected or ignored request):  *)
(* the program does go on after such an event, but every continuation is   *)
(* also a continuation of the run without that event, so it reaches no     *)
(* further state of the program.                                           *)
(*                                                                         *)
(* Two specifications share the actions.  Spec starts at the state after   *)
(* construction.  SpecQueue starts at the state the handlers leave after   *)
(* one nurse and QueueUsers - 1 patients have registered, each on a socket *)
(* of its own, the first patient has called the nurse and the second has   *)
(* been put in the waiting queue; it explores QueueEvents further events.  *)
(* A waiting queue of three ids takes a nurse, a patient in the call and   *)
(* three more patients, which lies beyond the events Spec explores.  The   *)
(* variable `limits` holds the bounds of the specification in force.       *)
(***************************************************************************)
EXTENDS Integers, Sequences, FiniteSets, TLC

\* ---------------------------------------------------------------- bounds
NumSockets == 3
NumIds == 3
MaxEvents == 7
MaxRelayEvents == 5
\* bounds of SpecQueue: registered users, and events after its first state
QueueUsers == 5
QueueEvents == 3
QueueRelayEvents == 1

\* ------------------------------------------------------------- constants
NoId == 0
NoSocket == 0
Everyone == -1
ValidRoles == {"nurse", "patient"}
Payloads == {"p1", "p2"}
PayloadEvents == {"register", "callUser", "acceptWaiting", "offer", "answer",
                  "ice-candidate", "chatMessage", "endCall"}
\* As an input NoId stands for a value that is no id ("" or null); Undefined
\* is a field missing from the payload, which only endCall tells apart.
Undefined == -2
NoUser == [id |-> NoId, role |-> "none", busy |-> FALSE, socketId |-> NoSocket]

VARIABLES
  limits,        \* bounds in force: numbers of sockets, ids, events, relays
  users,         \* state.users: insertion-ordered Map socketId -> user record
  userSockets,   \* state.userSockets: userId -> socketId
  activeCalls,   \* state.activeCalls: userId -> partnerId
  waitingQueue,  \* state.waitingQueue: array of patient ids
  closed,        \* sockets whose 'disconnect' event fired
  emitted,       \* messages emitted by the handler that ran last, in order
  lastEvent,     \* the event that handler processed
  nEvents,       \* number of events processed so far
  nSockets,      \* number of sockets that have sent an event so far
  nIds,          \* number of user ids that have been registered so far
  uncaught,      \* an exception left a handler uncaught
  lastSnapshot,  \* history: the list of the last onlineUsers broadcast
  admittedAt,    \* history: position the last acceptWaiting found its id at
  prevStart,     \* history: the event before the last, if it was a callUser
                 \* that started a call (else no socket, no id)
  registeredVia  \* history: ids that were registered through each socket

vars == <<limits, users, userSockets, activeCalls, waitingQueue, closed,
          emitted, lastEvent, nEvents, nSockets, nIds, uncaught,
          lastSnapshot, admittedAt, prevStart,
          registeredVia>>

Sockets == 1..limits.sockets
Ids == 1..limits.ids
RegisterInputs ==
  (Ids \X ValidRoles) \cup {<<NoId, "nurse">>, <<1, "admin">>}
InputIds == Ids \cup {NoId}

\* ------------------------------------------------------ Map / array helpers
\* Map.prototype.has / get / set / delete on state.users (keyed by socketId)
UsersHas(us, sid) == \E i \in 1..Len(us) : us[i].socketId = sid

UsersGet(us, sid) ==
  IF UsersHas(us, sid)
  THEN us[CHOOSE i \in 1..Len(us) : us[i].socketId = sid]
  ELSE NoUser

UsersSet(us, sid, rec) ==
  IF UsersHas(us, sid)
  THEN [i \in 1..Len(us) |-> IF us[i].socketId = sid THEN rec ELSE us[i]]
  ELSE Append(us, rec)

UsersDelete(us, sid) == SelectSeq(us, LAMBDA u : u.socketId # sid)

\* Array.prototype.includes / indexOf (1-based, 0 when absent) / splice(i, 1)
Includes(q, x) == \E i \in 1..Len(q) : q[i] = x

IndexOf(q, x) ==
  IF Includes(q, x)
  THEN CHOOSE i \in 1..Len(q) : q[i] = x /\ \A j \in 1..(i - 1) : q[j] # x
  ELSE 0

\* (variant: the first entry is removed whatever the index, as shift would)
Splice_head(q, i) == Tail(q)

\* (variant: the last entry is moved into the gap, as a swap-remove would)
Splice_swapRemove(q, i) ==
  [j \in 1..(Len(q) - 1) |-> IF j = i THEN q[Len(q)] ELSE q[j]]

Splice(q, i) == [j \in 1..(Len(q) - 1) |-> IF j < i THEN q[j] ELSE q[j + 1]]

Push(q, x) == Append(q, x)

\* ------------------------------------------------------------ the state
\* The handlers are written as functions from a state record to a state
\* record; `emitted` collects what the handler sends.
Cur == [users |-> users, userSockets |-> userSockets,
        activeCalls |-> activeCalls, waitingQueue |-> waitingQueue,
        emitted |-> <<>>]

Msg(to, event, data) == [to |-> to, event |-> event, data |-> data]

Emit(st, to, event, data) ==
  [st EXCEPT !.emitted = Append(@, Msg(to, event, data))]

\* ------------------------------------------------------ helper functions
getUserBySocketId(st, socketId) == UsersGet(st.users, socketId)

getUserById(st, userId) ==
  LET socketId == IF userId \in Ids THEN st.userSockets[userId] ELSE NoSocket
  IN IF socketId # NoSocket THEN UsersGet(st.users, socketId) ELSE NoUser

getOnlineUsers(st) ==
  [i \in 1..Len(st.users) |->
     [id |-> st.users[i].id, role |-> st.users[i].role, busy |-> st.users[i].busy]]

\* (variant: the busy flag is set but never cleared)
setUserBusy_neverClears(st, userId, busy) ==
  LET user == getUserById(st, userId)
  IN IF user # NoUser /\ busy
     THEN [st EXCEPT !.users = UsersSet(@, user.socketId, [user EXCEPT !.busy = TRUE])]
     ELSE st

setUserBusy(st, userId, busy) ==
  LET user == getUserById(st, userId)
  IN IF user # NoUser
     THEN [st EXCEPT !.users = UsersSet(@, user.socketId, [user EXCEPT !.busy = busy])]
     ELSE st

\* (variant: nothing is broadcast)
broadcastOnlineUsers_none(st) == st

broadcastOnlineUsers(st) ==
  Emit(st, Everyone, "onlineUsers", [list |-> getOnlineUsers(st)])

\* (variant: the callee is not sent incomingCall)
startCall_silent(st, callerId, calleeId) ==
  LET caller == getUserById(st, callerId)
      callee == getUserById(st, calleeId)
      s1 == setUserBusy(st, callerId, TRUE)
      s2 == setUserBusy(s1, calleeId, TRUE)
      s3 == [s2 EXCEPT !.activeCalls = [@ EXCEPT ![callerId] = calleeId]]
      s4 == [s3 EXCEPT !.activeCalls = [@ EXCEPT ![calleeId] = callerId]]
  IN IF caller = NoUser \/ callee = NoUser
     THEN [st |-> st, success |-> FALSE]
     ELSE [st |-> broadcastOnlineUsers(s4), success |-> TRUE]

startCall(st, callerId, calleeId) ==
  LET caller == getUserById(st, callerId)
      callee == getUserById(st, calleeId)
      s1 == setUserBusy(st, callerId, TRUE)
      s2 == setUserBusy(s1, calleeId, TRUE)
      s3 == [s2 EXCEPT !.activeCalls = [@ EXCEPT ![callerId] = calleeId]]
      s4 == [s3 EXCEPT !.activeCalls = [@ EXCEPT ![calleeId] = callerId]]
      s5 == Emit(s4, callee.socketId, "incomingCall",
                 [from |-> callerId, callerRole |-> caller.role])
  IN IF caller = NoUser \/ callee = NoUser
     THEN [st |-> st, success |-> FALSE]
     ELSE [st |-> broadcastOnlineUsers(s5), success |-> TRUE]

\* (variant: ending a call also takes the head of the waiting queue)
endCall_shiftsQueue(st, userId) ==
  LET partnerId == st.activeCalls[userId]
      user == getUserById(st, userId)
      partner == getUserById(st, partnerId)
      s1 == IF user # NoUser THEN setUserBusy(st, userId, FALSE) ELSE st
      s2 == IF partner # NoUser
            THEN Emit(setUserBusy(s1, partnerId, FALSE), partner.socketId,
                      "callEnded", [from |-> userId])
            ELSE s1
      s3 == [s2 EXCEPT !.activeCalls = [@ EXCEPT ![userId] = NoId]]
      s4 == [s3 EXCEPT !.activeCalls = [@ EXCEPT ![partnerId] = NoId]]
      s5 == IF user.role = "nurse" /\ Len(s4.waitingQueue) > 0
            THEN [Emit(s4, user.socketId, "waitingPatient",
                       [patientId |-> s4.waitingQueue[1],
                        queueLength |-> Len(s4.waitingQueue)])
                    EXCEPT !.waitingQueue = Tail(@)]
            ELSE s4
  IN IF partnerId = NoId THEN st ELSE broadcastOnlineUsers(s5)

endCall(st, userId) ==
  LET partnerId == st.activeCalls[userId]
      user == getUserById(st, userId)
      partner == getUserById(st, partnerId)
      s1 == IF user # NoUser THEN setUserBusy(st, userId, FALSE) ELSE st
      s2 == IF partner # NoUser
            THEN Emit(setUserBusy(s1, partnerId, FALSE), partner.socketId,
                      "callEnded", [from |-> userId])
            ELSE s1
      s3 == [s2 EXCEPT !.activeCalls = [@ EXCEPT ![userId] = NoId]]
      s4 == [s3 EXCEPT !.activeCalls = [@ EXCEPT ![partnerId] = NoId]]
      s5 == IF user.role = "nurse" /\ Len(s4.waitingQueue) > 0
            THEN Emit(s4, user.socketId, "waitingPatient",
                      [patientId |-> s4.waitingQueue[1],
                       queueLength |-> Len(s4.waitingQueue)])
            ELSE s4
  IN IF partnerId = NoId THEN st ELSE broadcastOnlineUsers(s5)

\* (variant: the disconnecting user's active call is not ended)
cleanupUser_noEndCall(st, socketId) ==
  LET user == UsersGet(st.users, socketId)
      queueIndex == IndexOf(st.waitingQueue, user.id)
      s2 == IF queueIndex # 0
            THEN [st EXCEPT !.waitingQueue = Splice(@, queueIndex)]
            ELSE st
      s3 == [s2 EXCEPT !.users = UsersDelete(@, socketId)]
      s4 == [s3 EXCEPT !.userSockets = [@ EXCEPT ![user.id] = NoSocket]]
  IN IF user = NoUser THEN st ELSE broadcastOnlineUsers(s4)

cleanupUser(st, socketId) ==
  LET user == UsersGet(st.users, socketId)
      s1 == IF st.activeCalls[user.id] # NoId THEN endCall(st, user.id) ELSE st
      queueIndex == IndexOf(s1.waitingQueue, user.id)
      s2 == IF queueIndex # 0
            THEN [s1 EXCEPT !.waitingQueue = Splice(@, queueIndex)]
            ELSE s1
      s3 == [s2 EXCEPT !.users = UsersDelete(@, socketId)]
      s4 == [s3 EXCEPT !.userSockets = [@ EXCEPT ![user.id] = NoSocket]]
  IN IF user = NoUser THEN st ELSE broadcastOnlineUsers(s4)

\* -------------------------------------------------------- event handlers
Error(st, socketId, message) == Emit(st, socketId, "error", [message |-> message])

\* (variant: the duplicate check is skipped)
userIdExists_never(st, userId) == FALSE

\* register: is the requested id already present in state.userSockets?
userIdExists(st, userId) == st.userSockets[userId] # NoSocket

\* (variant: the repeated request rewrites the entry as a fresh one)
reRegistered_overwrites(st, socketId, userId, role) ==
  Emit([st EXCEPT !.users = UsersSet(@, socketId,
                     [id |-> userId, role |-> role, busy |-> FALSE,
                      socketId |-> socketId])],
       socketId, "registered", [userId |-> userId, role |-> role])

\* register: the id is already owned by the sending socket
reRegistered(st, socketId, userId, role) ==
  Emit(st, socketId, "registered", [userId |-> userId, role |-> role])

\* (variant: every socket passes for the owner of the id)
ownedBySender_always(st, userId, socketId) == TRUE

\* register: existingSocketId === socket.id
ownedBySender(st, userId, socketId) == st.userSockets[userId] = socketId

onRegister(st, socketId, userId, role) ==
  IF userId = NoId THEN Error(st, socketId, "Invalid user ID")
  ELSE IF role \notin ValidRoles THEN Error(st, socketId, "Invalid role")
  ELSE IF userIdExists(st, userId)
  THEN IF ownedBySender(st, userId, socketId)
       THEN reRegistered(st, socketId, userId, role)
       ELSE Error(st, socketId, "User ID already registered")
  ELSE LET userData == [id |-> userId, role |-> role, busy |-> FALSE,
                        socketId |-> socketId]
           s1 == [st EXCEPT !.users = UsersSet(@, socketId, userData)]
           s2 == [s1 EXCEPT !.userSockets = [@ EXCEPT ![userId] = socketId]]
           s3 == Emit(s2, socketId, "registered", [userId |-> userId, role |-> role])
       IN broadcastOnlineUsers(s3)

\* (variant: the callee is never found busy)
calleeIsBusy_never(callee) == FALSE

\* callUser: the busy test on the callee
calleeIsBusy(callee) == callee.busy

\* (variant: the caller is never found in the queue)
alreadyQueued_never(st, caller) == FALSE

\* callUser: is the caller's id already in state.waitingQueue?
alreadyQueued(st, caller) == Includes(st.waitingQueue, caller.id)

\* callUser: the queue branch (patient calling a busy nurse)
enqueueWaiting(st, socketId, caller, callee) ==
  LET s1 == IF ~alreadyQueued(st, caller)
            THEN LET q == Push(st.waitingQueue, caller.id)
                 IN Emit([st EXCEPT !.waitingQueue = q], callee.socketId,
                         "waitingPatient",
                         [patientId |-> caller.id, queueLength |-> Len(q)])
            ELSE st
  IN Emit(s1, socketId, "callWaiting",
          [queuePosition |-> IndexOf(s1.waitingQueue, caller.id)])

\* (variant: every caller of a busy callee is put in the queue)
queueEligible_always(caller, callee) == TRUE

\* callUser: caller.role === 'patient' && callee.role === 'nurse'
queueEligible(caller, callee) ==
  caller.role = "patient" /\ callee.role = "nurse"

\* (variant: the role comparison is skipped)
sameRole_never(caller, callee) == FALSE

\* callUser: caller.role === callee.role
sameRole(caller, callee) == caller.role = callee.role

onCallUser(st, socketId, calleeId) ==
  LET caller == getUserBySocketId(st, socketId)
      callee == getUserById(st, calleeId)
      result == startCall(st, caller.id, callee.id)
  IN IF caller = NoUser THEN Error(st, socketId, "Not registered")
     ELSE IF callee = NoUser THEN Error(st, socketId, "User not found or offline")
     ELSE IF sameRole(caller, callee)
     THEN Error(st, socketId, "Cannot call users with same role")
     ELSE IF calleeIsBusy(callee)
     THEN IF queueEligible(caller, callee)
          THEN enqueueWaiting(st, socketId, caller, callee)
          ELSE Error(st, socketId, "User is currently busy")
     ELSE IF result.success
          THEN Emit(result.st, socketId, "callStarted", [to |-> calleeId])
          ELSE Error(result.st, socketId, "User not found")

\* (variant: any registered user may accept)
unauthorized_onlyUnregistered(nurse) == nurse = NoUser

\* acceptWaiting: the sender is not a registered nurse
unauthorized(nurse) == nurse = NoUser \/ nurse.role # "nurse"

\* (variant: the entry stays in the queue)
dropEntry_keeps(st, queueIndex) == st

\* acceptWaiting: state.waitingQueue.splice(queueIndex, 1)
dropEntry(st, queueIndex) ==
  [st EXCEPT !.waitingQueue = Splice(@, queueIndex)]

onAcceptWaiting(st, socketId, patientId) ==
  LET nurse == getUserBySocketId(st, socketId)
      queueIndex == IndexOf(st.waitingQueue, patientId)
      s1 == dropEntry(st, queueIndex)
      patient == getUserById(s1, patientId)
      result == startCall(s1, nurse.id, patientId)
  IN IF unauthorized(nurse)
     THEN Error(st, socketId, "Unauthorized action")
     ELSE IF queueIndex = 0 THEN Error(st, socketId, "Patient not in queue")
     ELSE IF patient = NoUser THEN Error(s1, socketId, "Patient offline")
     ELSE IF result.success
          THEN Emit(result.st, patient.socketId, "callStarted",
                    [from |-> nurse.id, role |-> nurse.role])
          ELSE result.st

\* (variant: any target ends the sender's call)
pairMatches_always(st, from, to) == TRUE

\* endCall event: state.activeCalls.get(from.id) === to, where get gives
\* undefined when the sender has no entry in the call map
pairMatches(st, from, to) ==
  IF st.activeCalls[from.id] = NoId THEN to = Undefined
  ELSE st.activeCalls[from.id] = to

\* ------------------------------------------------- signalling and chat
\* (variant: only the sender is looked up)
unresolved_onlySender(from, target) == from = NoUser

\* relay handlers: !from || !target
unresolved(from, target) == from = NoUser \/ target = NoUser

onOffer(st, socketId, offer, to) ==
  LET from == getUserBySocketId(st, socketId)
      target == getUserById(st, to)
  IN IF unresolved(from, target) THEN st
     ELSE Emit(st, target.socketId, "offer",
               [offer |-> offer, from |-> from.id])

onAnswer(st, socketId, answer, to) ==
  LET from == getUserBySocketId(st, socketId)
      target == getUserById(st, to)
  IN IF unresolved(from, target) THEN st
     ELSE Emit(st, target.socketId, "answer",
               [answer |-> answer, from |-> from.id])

onIceCandidate(st, socketId, candidate, to) ==
  LET from == getUserBySocketId(st, socketId)
      target == getUserById(st, to)
  IN IF unresolved(from, target) THEN st
     ELSE Emit(st, target.socketId, "ice-candidate",
               [candidate |-> candidate, from |-> from.id])

\* Date.now() is the number of events handled so far.
onChatMessage(st, socketId, message, to, now) ==
  LET from == getUserBySocketId(st, socketId)
      target == getUserById(st, to)
  IN IF unresolved(from, target) THEN st
     ELSE Emit(st, target.socketId, "chatMessage",
               [message |-> message, from |-> from.id, timestamp |-> now])

onGetWaitingQueue(st, socketId) ==
  LET user == getUserBySocketId(st, socketId)
  IN IF user = NoUser \/ user.role # "nurse" THEN st
     ELSE Emit(st, socketId, "waitingQueue",
               [queue |-> st.waitingQueue, length |-> Len(st.waitingQueue)])

onEndCall(st, socketId, to) ==
  LET from == getUserBySocketId(st, socketId)
  IN IF from = NoUser THEN st
     ELSE IF pairMatches(st, from, to) THEN endCall(st, from.id)
     ELSE st

onDisconnect(st, socketId) == cleanupUser(st, socketId)

\* ------------------------------------------------------------- actions
\* What the sender of a callUser / acceptWaiting was told by the messages em
Has(em, to, event) ==
  \E i \in 1..Len(em) : em[i].to = to /\ em[i].event = event

Outcome(em, s) ==
  IF Has(em, s, "callStarted") THEN "Started"
  ELSE IF Has(em, s, "callWaiting") THEN "Queued"
  ELSE IF Has(em, s, "error") THEN "Rejected"
  ELSE "None"

\* Did the handler leave state.* as it was?
Untouched(st) ==
  /\ st.users = users
  /\ st.userSockets = userSockets
  /\ st.activeCalls = activeCalls
  /\ st.waitingQueue = waitingQueue

\* The handler `type` of socket s ran on input (id, role) and produced st.
\* The positions of the onlineUsers broadcasts among the messages em.
Snapshots(em) == {i \in 1..Len(em) : em[i].event = "onlineUsers"}

Max(S) == CHOOSE x \in S : \A y \in S : y <= x
Min0(S) == CHOOSE x \in S : \A y \in S : x <= y

\* The event handled last, if it was a callUser that started a call.
StartedBefore ==
  IF lastEvent.type = "callUser"
     /\ Outcome(emitted, lastEvent.socket) = "Started"
  THEN [socket |-> lastEvent.socket, id |-> lastEvent.id]
  ELSE [socket |-> NoSocket, id |-> NoId]

CommitWith(st, type, s, id, role, payload) ==
  /\ limits' = limits
  /\ users' = st.users
  /\ userSockets' = st.userSockets
  /\ activeCalls' = st.activeCalls
  /\ waitingQueue' = st.waitingQueue
  /\ emitted' = st.emitted
  /\ lastEvent' = [type |-> type, socket |-> s, id |-> id, role |-> role,
                   payload |-> payload,
                   changed |-> ~Untouched(st) \/ type = "disconnect"]
  /\ nEvents' = nEvents + 1
  /\ prevStart' = StartedBefore
  /\ nSockets' = IF s > nSockets THEN s ELSE nSockets
  /\ uncaught' = FALSE
  /\ lastSnapshot' = IF Snapshots(st.emitted) # {}
                     THEN st.emitted[Max(Snapshots(st.emitted))].data.list
                     ELSE lastSnapshot
  /\ admittedAt' = IF type = "acceptWaiting"
                      /\ ~unauthorized(UsersGet(users, s))
                   THEN IndexOf(waitingQueue, id) ELSE 0

Commit(st, type, s, id, role) == CommitWith(st, type, s, id, role, "none")

Init ==
  /\ limits = [sockets |-> NumSockets, ids |-> NumIds,
               events |-> MaxEvents, relay |-> MaxRelayEvents]
  /\ users = <<>>
  /\ userSockets = [u \in Ids |-> NoSocket]
  /\ activeCalls = [u \in Ids |-> NoId]
  /\ waitingQueue = <<>>
  /\ closed = {}
  /\ emitted = <<>>
  /\ lastEvent = [type |-> "none", socket |-> NoSocket, id |-> NoId,
                  role |-> "none", payload |-> "none", changed |-> TRUE]
  /\ nEvents = 0
  /\ nSockets = 0
  /\ nIds = 0
  /\ prevStart = [socket |-> NoSocket, id |-> NoId]
  /\ admittedAt = 0
  /\ lastSnapshot = <<>>
  /\ uncaught = FALSE
  /\ registeredVia = [s \in Sockets |-> {}]

\* A socket may send an event while it is open and the event budget lasts.
Open(s) ==
  /\ s \notin closed /\ s <= nSockets + 1
  /\ nEvents < limits.events /\ lastEvent.changed

Register(s, userId, role) ==
  /\ Open(s)
  /\ userId <= nIds + 1
  /\ Commit(onRegister(Cur, s, userId, role), "register", s, userId, role)
  /\ registeredVia' =
       IF userId \in Ids /\ userSockets[userId] = NoSocket
          /\ userSockets'[userId] = s
       THEN [registeredVia EXCEPT ![s] = @ \cup {userId}]
       ELSE registeredVia
  /\ nIds' = IF userId > nIds /\ userSockets'[userId] # NoSocket
             THEN userId ELSE nIds
  /\ UNCHANGED closed

CallUser(s, calleeId) ==
  /\ Open(s)
  /\ Commit(onCallUser(Cur, s, calleeId), "callUser", s, calleeId, "none")
  /\ UNCHANGED <<closed, nIds, registeredVia>>

AcceptWaiting(s, patientId) ==
  /\ Open(s)
  /\ Commit(onAcceptWaiting(Cur, s, patientId), "acceptWaiting", s, patientId, "none")
  /\ UNCHANGED <<closed, nIds, registeredVia>>

EndCall(s, to) ==
  /\ Open(s)
  /\ Commit(onEndCall(Cur, s, to), "endCall", s, to, "none")
  /\ UNCHANGED <<closed, nIds, registeredVia>>

\* Events that leave the state as it is (signalling, chat, queue queries,
\* events without payload) are sent among the first MaxRelayEvents events.
OpenRelay(s) == Open(s) /\ nEvents < limits.relay

Offer(s, offer, to) ==
  /\ OpenRelay(s)
  /\ CommitWith(onOffer(Cur, s, offer, to), "offer", s, to, "none", offer)
  /\ UNCHANGED <<closed, nIds, registeredVia>>

Answer(s, answer, to) ==
  /\ OpenRelay(s)
  /\ CommitWith(onAnswer(Cur, s, answer, to), "answer", s, to, "none", answer)
  /\ UNCHANGED <<closed, nIds, registeredVia>>

IceCandidate(s, candidate, to) ==
  /\ OpenRelay(s)
  /\ CommitWith(onIceCandidate(Cur, s, candidate, to), "ice-candidate", s, to,
                "none", candidate)
  /\ UNCHANGED <<closed, nIds, registeredVia>>

ChatMessage(s, message, to) ==
  /\ OpenRelay(s)
  /\ CommitWith(onChatMessage(Cur, s, message, to, nEvents), "chatMessage", s,
                to, "none", message)
  /\ UNCHANGED <<closed, nIds, registeredVia>>

GetWaitingQueue(s) ==
  /\ OpenRelay(s)
  /\ Commit(onGetWaitingQueue(Cur, s), "getWaitingQueue", s, NoId, "none")
  /\ UNCHANGED <<closed, nIds, registeredVia>>

\* An event of a handler that destructures its payload, sent without one:
\* the parameter pattern ({ ... }) is evaluated on undefined before the
\* handler's try block is entered, and the TypeError leaves the handler.
NoPayload(s, event) ==
  /\ OpenRelay(s)
  /\ event \in PayloadEvents
  /\ uncaught' = TRUE
  /\ emitted' = <<>>
  /\ lastEvent' = [type |-> "malformed", socket |-> s, id |-> NoId,
                   role |-> "none", payload |-> event, changed |-> FALSE]
  /\ nEvents' = nEvents + 1
  /\ nSockets' = IF s > nSockets THEN s ELSE nSockets
  /\ prevStart' = StartedBefore
  /\ admittedAt' = 0
  /\ UNCHANGED <<limits, users, userSockets, activeCalls, waitingQueue,
                 closed, nIds, registeredVia, lastSnapshot>>

Disconnect(s) ==
  /\ Open(s)
  /\ Commit(onDisconnect(Cur, s), "disconnect", s, NoId, "none")
  /\ closed' = closed \cup {s}
  /\ UNCHANGED nIds
  /\ UNCHANGED registeredVia

\* The sockets that may send an event, and those that may send a relay event.
Senders == {s \in Sockets : Open(s)}
RelaySenders == {s \in Sockets : OpenRelay(s)}

Next ==
  \/ \E s \in Senders, in \in RegisterInputs : Register(s, in[1], in[2])
  \/ \E s \in Senders, calleeId \in InputIds : CallUser(s, calleeId)
  \/ \E s \in Senders, patientId \in InputIds : AcceptWaiting(s, patientId)
  \/ \E s \in RelaySenders, offer \in Payloads, to \in InputIds :
       Offer(s, offer, to)
  \/ \E s \in RelaySenders, answer \in Payloads, to \in InputIds :
       Answer(s, answer, to)
  \/ \E s \in RelaySenders, candidate \in Payloads, to \in InputIds :
       IceCandidate(s, candidate, to)
  \/ \E s \in RelaySenders, message \in Payloads, to \in InputIds :
       ChatMessage(s, message, to)
  \/ \E s \in Senders, to \in InputIds \cup {Undefined} : EndCall(s, to)
  \/ \E s \in RelaySenders : GetWaitingQueue(s)
  \/ \E s \in RelaySenders, event \in PayloadEvents : NoPayload(s, event)
  \/ \E s \in Senders : Disconnect(s)

Spec == Init /\ [][Next]_vars

\* The role the n-th registration asks for: one nurse, then patients.
RoleOf(n) == IF n = 1 THEN "nurse" ELSE "patient"

\* state after the first n registrations: user n registers on socket n
RECURSIVE Registered(_)
Registered(n) ==
  IF n = 0
  THEN [users |-> <<>>, userSockets |-> [u \in Ids |-> NoSocket],
        activeCalls |-> [u \in Ids |-> NoId], waitingQueue |-> <<>>,
        emitted |-> <<>>]
  ELSE CHOOSE st \in {onRegister([prev EXCEPT !.emitted = <<>>], n, n, RoleOf(n)) :
                        prev \in {Registered(n - 1)}} : TRUE

\* state after patient 2 then called nurse 1, who was idle
InCallWith ==
  CHOOSE st \in {onCallUser([prev EXCEPT !.emitted = <<>>], 2, 1) :
                   prev \in {Registered(QueueUsers)}} : TRUE

\* state after patient 3 then called nurse 1, who was busy
FirstQueued ==
  CHOOSE st \in {onCallUser([prev EXCEPT !.emitted = <<>>], 3, 1) :
                   prev \in {InCallWith}} : TRUE

InitQueue ==
  /\ limits = [sockets |-> QueueUsers, ids |-> QueueUsers,
               events |-> QueueUsers + 2 + QueueEvents,
               relay |-> QueueUsers + 2 + QueueRelayEvents]
  /\ \E before \in {InCallWith}, st \in {FirstQueued} :
        /\ users = st.users
        /\ userSockets = st.userSockets
        /\ activeCalls = st.activeCalls
        /\ waitingQueue = st.waitingQueue
        /\ emitted = st.emitted
        /\ lastSnapshot =
             before.emitted[Max(Snapshots(before.emitted))].data.list
  /\ closed = {}
  /\ lastEvent = [type |-> "callUser", socket |-> 3, id |-> 1,
                  role |-> "none", payload |-> "none", changed |-> TRUE]
  /\ nEvents = QueueUsers + 2
  /\ nSockets = QueueUsers
  /\ nIds = QueueUsers
  /\ prevStart = [socket |-> 2, id |-> 1]
  /\ admittedAt = 0
  /\ uncaught = FALSE
  /\ registeredVia = [s \in Sockets |-> {s}]

SpecQueue == InitQueue /\ [][Next]_vars

TypeOK ==
  /\ \A i \in 1..Len(users) :
       /\ users[i].id \in Ids /\ users[i].role \in ValidRoles
       /\ users[i].busy \in BOOLEAN /\ users[i].socketId \in Sockets
  /\ userSockets \in [Ids -> Sockets \cup {NoSocket}]
  /\ activeCalls \in [Ids -> Ids \cup {NoId}]
  /\ \A i \in 1..Len(waitingQueue) : waitingQueue[i] \in Ids
  /\ closed \subseteq Sockets /\ nEvents \in 0..limits.events
  /\ nSockets \in 0..limits.sockets /\ nIds \in 0..limits.ids /\ uncaught \in BOOLEAN

\* =====================================================================
\* Properties
\* =====================================================================
Next1 == [users |-> users', userSockets |-> userSockets',
          activeCalls |-> activeCalls', waitingQueue |-> waitingQueue',
          emitted |-> emitted']

Busy(st, id) == getUserById(st, id).busy
InCall(id) == activeCalls[id] # NoId \/ \E a \in Ids : activeCalls[a] = id
Queued(id) == Includes(waitingQueue, id)

\* C1: the call bindings are a symmetric one-to-one pairing: if the call
\* map binds a to b then it binds b to a.
C1_SymmetricPairing ==
  \A a \in Ids :
    activeCalls[a] # NoId => activeCalls[activeCalls[a]] = a

\* C2: for every participant in the directory, busy = true holds if and
\* only if the participant's id has a binding in the call map.
C2_BusyIffBound ==
  \A i \in 1..Len(users) :
    users[i].busy <=> activeCalls[users[i].id] # NoId

\* C3: an id present in the waiting queue is not in an active call and its
\* directory entry has busy = false.
C3_QueuedNotInCall ==
  \A i \in 1..Len(waitingQueue) :
    ~InCall(waitingQueue[i]) /\ ~Busy(Cur, waitingQueue[i])

\* C4: once the call a <-> b exists, the bindings of a and b stay as they
\* are until a or b sends endCall or disconnects; no callUser or
\* acceptWaiting step replaces the partner of a participant in a call.
C4_CallPersists ==
  [][\A a, b \in Ids :
       (/\ activeCalls[a] = b /\ activeCalls[b] = a
        /\ ~(activeCalls'[a] = b /\ activeCalls'[b] = a))
       => /\ lastEvent'.type \in {"endCall", "disconnect"}
          /\ lastEvent'.socket \in {userSockets[a], userSockets[b]}]_vars

\* C5: when callUser from a to b results in Started, then right afterwards
\* a and b are both busy and each is bound to the other in the call map (so
\* endCall by either ends the call with the other as partner).
C5_StartedBindsBoth ==
  (lastEvent.type = "callUser"
   /\ Outcome(emitted, lastEvent.socket) = "Started")
  => LET a == UsersGet(users, lastEvent.socket).id
         b == lastEvent.id
     IN /\ Busy(Cur, a) /\ Busy(Cur, b)
        /\ activeCalls[a] = b /\ activeCalls[b] = a

\* C6: two callUser events from two distinct patients to the same idle
\* nurse, handled one after the other in either order: the first is
\* Started and the second is Queued; they never both start a call.
C6_SecondCallerQueued ==
  LET first == UsersGet(users, prevStart.socket)
      second == UsersGet(users, lastEvent.socket)
      target == getUserById(Cur, lastEvent.id)
  IN (/\ prevStart.socket # NoSocket
      /\ lastEvent.type = "callUser"
      /\ lastEvent.socket # prevStart.socket
      /\ lastEvent.id = prevStart.id
      /\ first.role = "patient" /\ second.role = "patient"
      /\ target.role = "nurse")
     => Outcome(emitted, lastEvent.socket) = "Queued"

C6_Witness ==
  /\ prevStart.socket # NoSocket
  /\ lastEvent.type = "callUser"
  /\ lastEvent.socket # prevStart.socket
  /\ lastEvent.id = prevStart.id
  /\ UsersGet(users, prevStart.socket).role = "patient"
  /\ UsersGet(users, lastEvent.socket).role = "patient"
  /\ ~UsersGet(users, lastEvent.socket).busy
  /\ getUserById(Cur, lastEvent.id).role = "nurse"
  /\ Outcome(emitted, lastEvent.socket) = "Queued"
  /\ Queued(UsersGet(users, lastEvent.socket).id)
  /\ activeCalls[lastEvent.id] = UsersGet(users, prevStart.socket).id

\* C7: the directory never holds two participants with the same id.
C7_OneParticipantPerId ==
  \A i, j \in 1..Len(users) : users[i].id = users[j].id => i = j

C7_Witness ==
  /\ lastEvent.type = "register"
  /\ Has(emitted, lastEvent.socket, "error")
  /\ lastEvent.id \in Ids /\ lastEvent.role \in ValidRoles
  /\ \E i \in 1..Len(users) :
       users[i].id = lastEvent.id /\ users[i].socketId # lastEvent.socket
  /\ closed # {}

\* C8: when a participant that is in a call with a live partner
\* disconnects, then right after the disconnect handler the partner is not
\* busy, has no call binding, and has been sent callEnded.
C8_DisconnectEndsCall ==
  [][(lastEvent'.type = "disconnect" /\ nEvents' # nEvents)
     => LET user == UsersGet(users, lastEvent'.socket)
            partnerId == IF user = NoUser THEN NoId ELSE activeCalls[user.id]
            partner == getUserById(Cur, partnerId)
        IN (partnerId # NoId /\ partner # NoUser)
           => /\ activeCalls'[partnerId] = NoId
              /\ ~Busy(Next1, partnerId)
              /\ \E i \in 1..Len(emitted') :
                   emitted'[i] = Msg(partner.socketId, "callEnded",
                                     [from |-> user.id])]_vars

C8_Witness ==
  /\ lastEvent.type = "disconnect"
  /\ \E i \in 1..Len(emitted) :
       /\ emitted[i].event = "callEnded"
       /\ emitted[i].to \notin closed
       /\ LET partner == UsersGet(users, emitted[i].to)
          IN /\ partner # NoUser /\ ~partner.busy
             /\ activeCalls[partner.id] = NoId

\* C9: after the disconnect handler of a connection, no id that was
\* registered through that connection remains in the directory (either
\* index), in the waiting queue, or in the call map (as key or as value).
C9_DisconnectRemovesAll ==
  lastEvent.type = "disconnect"
  => \A id \in registeredVia[lastEvent.socket] :
       /\ userSockets[id] = NoSocket
       /\ \A i \in 1..Len(users) : users[i].id # id
       /\ ~Queued(id)
       /\ ~InCall(id)

\* C10: the waiting queue is FIFO by insertion: no step changes the
\* relative order of two ids that stay queued, and an id that enters the
\* queue is placed behind every id already there.
C10_QueueFifo ==
  [][/\ \A x, y \in Ids :
          (/\ Queued(x) /\ Queued(y)
           /\ Includes(waitingQueue', x) /\ Includes(waitingQueue', y)
           /\ IndexOf(waitingQueue, x) < IndexOf(waitingQueue, y))
          => IndexOf(waitingQueue', x) < IndexOf(waitingQueue', y)
     /\ \A x, y \in Ids :
          (/\ ~Queued(x) /\ Includes(waitingQueue', x)
           /\ Queued(y) /\ Includes(waitingQueue', y))
          => IndexOf(waitingQueue', y) < IndexOf(waitingQueue', x)]_vars

\* (the nurse admitted the second of at least three queued ids, so that an
\* id queued before it and an id queued after it stay in the queue)
C10_Witness ==
  /\ lastEvent.type = "acceptWaiting"
  /\ lastEvent.changed
  /\ admittedAt = 2
  /\ Len(waitingQueue) >= 2
  /\ ~Includes(waitingQueue, lastEvent.id)

\* ---------------------------------------------------------------------
\* A step that handled an event of the given type
Handled(type) == lastEvent'.type = type /\ nEvents' = nEvents + 1

\* state.* is the same before and after the step
StateUnchanged ==
  /\ users' = users /\ userSockets' = userSockets
  /\ activeCalls' = activeCalls /\ waitingQueue' = waitingQueue

\* C11: no id is in the waiting queue twice, and a callUser by a patient
\* that is already queued, to a busy nurse, results in Queued and leaves the
\* queue exactly as it was.
C11_EnqueueIdempotent ==
  [][/\ \A i, j \in 1..Len(waitingQueue') :
          waitingQueue'[i] = waitingQueue'[j] => i = j
     /\ LET caller == UsersGet(users, lastEvent'.socket)
            callee == getUserById(Cur, lastEvent'.id)
        IN (/\ Handled("callUser")
            /\ caller.role = "patient" /\ Queued(caller.id)
            /\ callee.role = "nurse" /\ callee.busy)
           => /\ Outcome(emitted', lastEvent'.socket) = "Queued"
              /\ waitingQueue' = waitingQueue]_vars

C11_Witness ==
  /\ lastEvent.type = "callUser" /\ ~lastEvent.changed
  /\ Outcome(emitted, lastEvent.socket) = "Queued"
  /\ Queued(UsersGet(users, lastEvent.socket).id)
  /\ Len(emitted) = 1

\* C12: an id leaves the waiting queue only by an acceptWaiting that names
\* it or by the disconnect of the connection that owns it; an endCall
\* event leaves the queue as it was and starts no call.
C12_QueueLeftOnlyByAdmitOrDisconnect ==
  [][/\ \A x \in Ids :
          (Queued(x) /\ ~Includes(waitingQueue', x))
          => \/ Handled("acceptWaiting") /\ lastEvent'.id = x
             \/ Handled("disconnect") /\ userSockets[x] = lastEvent'.socket
     /\ Handled("endCall")
        => /\ waitingQueue' = waitingQueue
           /\ \A a \in Ids : activeCalls'[a] \in {activeCalls[a], NoId}]_vars

C12_Witness ==
  /\ lastEvent.type = "endCall" /\ lastEvent.changed
  /\ Has(emitted, UsersGet(users, lastEvent.socket).socketId, "waitingPatient")
  /\ Len(waitingQueue) > 0
  /\ \A a \in Ids : activeCalls[a] = NoId

\* C13: when a registered nurse sends acceptWaiting for an id that is in
\* the queue (at any position) and resolves to an online participant, that
\* id alone leaves the queue, the nurse and that participant are both busy
\* afterwards, and the call map binds exactly those two to each other.
C13_AdmitPairs ==
  [][LET nurse == UsersGet(users, lastEvent'.socket)
         patientId == lastEvent'.id
     IN (/\ Handled("acceptWaiting")
         /\ nurse.role = "nurse"
         /\ Queued(patientId)
         /\ getUserById(Cur, patientId) # NoUser)
        => /\ waitingQueue' = SelectSeq(waitingQueue, LAMBDA x : x # patientId)
           /\ Len(waitingQueue') = Len(waitingQueue) - 1
           /\ Busy(Next1, nurse.id) /\ Busy(Next1, patientId)
           /\ activeCalls'[nurse.id] = patientId
           /\ activeCalls'[patientId] = nurse.id
           /\ \A a \in Ids \ {nurse.id, patientId} :
                activeCalls'[a] = activeCalls[a]]_vars

\* (the admitted id was the second of two queued ids)
C13_Witness ==
  /\ lastEvent.type = "acceptWaiting" /\ lastEvent.changed
  /\ admittedAt = 2
  /\ Len(waitingQueue) = 1 /\ ~Queued(lastEvent.id)
  /\ activeCalls[lastEvent.id] = UsersGet(users, lastEvent.socket).id
  /\ activeCalls[UsersGet(users, lastEvent.socket).id] = lastEvent.id
  /\ \E i \in 1..Len(emitted) :
       /\ emitted[i].event = "incomingCall"
       /\ emitted[i].to # lastEvent.socket
       /\ UsersGet(users, emitted[i].to).id = lastEvent.id
       /\ UsersGet(users, emitted[i].to).busy
  /\ \E i \in 1..Len(users) :
       users[i].id = waitingQueue[1] /\ users[i].socketId \notin
         {lastEvent.socket, userSockets[lastEvent.id]}

\* C14: acceptWaiting from a connection that is unregistered or whose role
\* is not nurse is answered with the error "Unauthorized action", and
\* acceptWaiting from a nurse for an id that is not in the queue with the
\* error "Patient not in queue"; in both cases the directory, the call map
\* and the queue are unchanged and the error to the sender is the only
\* message emitted.
C14_AcceptRejected ==
  [][LET s == lastEvent'.socket
         nurse == UsersGet(users, s)
     IN Handled("acceptWaiting")
        => /\ (nurse = NoUser \/ nurse.role # "nurse")
              => /\ emitted' = <<Msg(s, "error",
                                     [message |-> "Unauthorized action"])>>
                 /\ StateUnchanged
           /\ (nurse # NoUser /\ nurse.role = "nurse"
               /\ ~Queued(lastEvent'.id))
              => /\ emitted' = <<Msg(s, "error",
                                     [message |-> "Patient not in queue"])>>
                 /\ StateUnchanged]_vars

\* (a registered patient asked to admit an id that is queued)
C14_Witness ==
  /\ lastEvent.type = "acceptWaiting" /\ ~lastEvent.changed
  /\ UsersGet(users, lastEvent.socket).role = "patient"
  /\ Queued(lastEvent.id)
  /\ emitted = <<Msg(lastEvent.socket, "error",
                     [message |-> "Unauthorized action"])>>

\* C15: when a nurse sends acceptWaiting for a queued id that no longer
\* resolves to a directory entry, the sender receives the error "Patient
\* offline", that id is removed from the queue, and the directory (with
\* every busy flag) and the call map are unchanged.
C15_AdmitOffline ==
  [][LET s == lastEvent'.socket
         nurse == UsersGet(users, s)
         patientId == lastEvent'.id
     IN (/\ Handled("acceptWaiting")
         /\ nurse.role = "nurse"
         /\ Queued(patientId)
         /\ getUserById(Cur, patientId) = NoUser)
        => /\ emitted' = <<Msg(s, "error", [message |-> "Patient offline"])>>
           /\ waitingQueue' = SelectSeq(waitingQueue, LAMBDA x : x # patientId)
           /\ Len(waitingQueue') = Len(waitingQueue) - 1
           /\ users' = users
           /\ userSockets' = userSockets
           /\ activeCalls' = activeCalls]_vars

\* (the queue entry of an id without a directory entry has been dropped)
C15_Witness ==
  /\ lastEvent.type = "acceptWaiting" /\ lastEvent.changed
  /\ admittedAt > 0
  /\ ~Queued(lastEvent.id)
  /\ getUserById(Cur, lastEvent.id) = NoUser
  /\ emitted = <<Msg(lastEvent.socket, "error",
                     [message |-> "Patient offline"])>>

\* C16: a successful acceptWaiting emits callStarted to both members of the
\* new call: the connection of the admitting nurse and the connection of
\* the admitted patient each receive a callStarted message.
C16_AdmitNotifiesBoth ==
  [][LET s == lastEvent'.socket
         nurse == UsersGet(users, s)
         patient == getUserById(Cur, lastEvent'.id)
     IN (/\ Handled("acceptWaiting")
         /\ nurse.role = "nurse"
         /\ Queued(lastEvent'.id)
         /\ patient # NoUser)
        => /\ Has(emitted', patient.socketId, "callStarted")
           /\ Has(emitted', s, "callStarted")]_vars

\* C17: whenever an endCall event ends an active call whose other member
\* (the partner of the sender) is a nurse and the waiting queue is not
\* empty, that nurse's connection is sent waitingPatient.
C17_PartnerNurseNotified ==
  [][LET from == UsersGet(users, lastEvent'.socket)
         to == lastEvent'.id
         partner == getUserById(Cur, to)
     IN (/\ Handled("endCall")
         /\ from # NoUser
         /\ to # NoId
         /\ activeCalls[from.id] = to
         /\ partner # NoUser
         /\ partner.role = "nurse"
         /\ Len(waitingQueue) > 0)
        => Has(emitted', partner.socketId, "waitingPatient")]_vars

\* C18: an endCall event takes effect only if its target equals the
\* sender's current call partner: when the sender is unregistered, has no
\* active call, or names any other id, the directory, the call map and the
\* queue are unchanged and no message is emitted.
C18_EndCallNeedsMatch ==
  [][LET from == UsersGet(users, lastEvent'.socket)
     IN (/\ Handled("endCall")
         /\ \/ from = NoUser
            \/ activeCalls[from.id] = NoId
            \/ activeCalls[from.id] # lastEvent'.id)
        => StateUnchanged /\ emitted' = <<>>]_vars

\* (the sender is in a call and named an id other than its partner)
C18_Witness ==
  /\ lastEvent.type = "endCall" /\ ~lastEvent.changed
  /\ UsersGet(users, lastEvent.socket) # NoUser
  /\ activeCalls[UsersGet(users, lastEvent.socket).id] \notin {NoId, lastEvent.id}
  /\ lastEvent.id \in Ids
  /\ UsersGet(users, lastEvent.socket).busy
  /\ emitted = <<>>

\* C19: register with a valid id and role from a connection other than the
\* one that owns the id is answered with the error "User ID already
\* registered" and nothing else: the existing entry (its socket, role and
\* busy flag), the id index, the call map and the queue are unchanged.
C19_DuplicateIdRejected ==
  [][LET s == lastEvent'.socket
         userId == lastEvent'.id
     IN (/\ Handled("register")
         /\ userId # NoId
         /\ lastEvent'.role \in ValidRoles
         /\ userSockets[userId] \notin {NoSocket, s})
        => /\ emitted' = <<Msg(s, "error",
                               [message |-> "User ID already registered"])>>
           /\ StateUnchanged
           /\ getUserById(Next1, userId) = getUserById(Cur, userId)]_vars

\* (a busy participant's id was requested by another connection)
C19_Witness ==
  /\ lastEvent.type = "register" /\ ~lastEvent.changed
  /\ lastEvent.id \in Ids /\ lastEvent.role \in ValidRoles
  /\ userSockets[lastEvent.id] \notin {NoSocket, lastEvent.socket}
  /\ getUserById(Cur, lastEvent.id).id = lastEvent.id
  /\ getUserById(Cur, lastEvent.id).busy
  /\ getUserById(Cur, lastEvent.id).role # lastEvent.role
  /\ emitted = <<Msg(lastEvent.socket, "error",
                     [message |-> "User ID already registered"])>>

\* C20: register of an id from the connection that already owns it,
\* whatever valid role the request carries, succeeds without effect: the
\* sender receives registered (carrying the id and the role of the request)
\* and nothing else is emitted, and the directory entry (its role and its
\* busy flag included), the id index, the call map and the queue are
\* unchanged.
C20_ReRegisterIdempotent ==
  [][LET s == lastEvent'.socket
         userId == lastEvent'.id
     IN (/\ Handled("register")
         /\ userId # NoId
         /\ lastEvent'.role \in ValidRoles
         /\ userSockets[userId] = s)
        => /\ emitted' = <<Msg(s, "registered",
                               [userId |-> userId,
                                role |-> lastEvent'.role])>>
           /\ StateUnchanged
           /\ UsersGet(users', s) = UsersGet(users, s)]_vars

\* (a busy nurse's connection registered its own id again as patient)
C20_Witness ==
  /\ lastEvent.type = "register" /\ ~lastEvent.changed
  /\ lastEvent.id \in Ids /\ lastEvent.role = "patient"
  /\ userSockets[lastEvent.id] = lastEvent.socket
  /\ UsersGet(users, lastEvent.socket).id = lastEvent.id
  /\ UsersGet(users, lastEvent.socket).role = "nurse"
  /\ UsersGet(users, lastEvent.socket).busy
  /\ Has(emitted, lastEvent.socket, "registered")

\* C21: callUser whose sender and resolved target have the same role (the
\* sender calling its own id included) is answered with the error "Cannot
\* call users with same role" whether or not the target is busy; nothing
\* else is emitted, no busy flag or call binding changes and the queue is
\* unchanged.
C21_SameRoleRejected ==
  [][LET s == lastEvent'.socket
         caller == UsersGet(users, s)
         callee == getUserById(Cur, lastEvent'.id)
     IN (/\ Handled("callUser")
         /\ caller # NoUser
         /\ callee # NoUser
         /\ caller.role = callee.role)
        => /\ emitted' = <<Msg(s, "error",
                               [message |-> "Cannot call users with same role"])>>
           /\ StateUnchanged]_vars

\* (an idle participant called a busy participant of its own role)
C21_Witness ==
  /\ lastEvent.type = "callUser" /\ ~lastEvent.changed
  /\ lastEvent.id \in Ids
  /\ UsersGet(users, lastEvent.socket) # NoUser
  /\ ~UsersGet(users, lastEvent.socket).busy
  /\ getUserById(Cur, lastEvent.id).busy
  /\ getUserById(Cur, lastEvent.id).role = UsersGet(users, lastEvent.socket).role
  /\ emitted = <<Msg(lastEvent.socket, "error",
                     [message |-> "Cannot call users with same role"])>>

\* C22: every rejected callUser leaves the directory, the call map and the
\* queue unchanged and emits one error, to the sender only: a sender
\* without a directory entry gets "Not registered", a target that does not
\* resolve gets "User not found or offline", and a nurse calling a busy
\* patient gets "User is currently busy" with no queue insertion.
C22_RejectedCallNoEffect ==
  [][LET s == lastEvent'.socket
         caller == UsersGet(users, s)
         callee == getUserById(Cur, lastEvent'.id)
         OnlyError(m) == emitted' = <<Msg(s, "error", [message |-> m])>>
     IN Handled("callUser")
        => /\ Outcome(emitted', s) = "Rejected"
              => /\ StateUnchanged
                 /\ Len(emitted') = 1 /\ emitted'[1].to = s
           /\ caller = NoUser => OnlyError("Not registered")
           /\ (caller # NoUser /\ callee = NoUser)
              => OnlyError("User not found or offline")
           /\ (/\ caller.role = "nurse" /\ callee.role = "patient"
               /\ callee.busy)
              => /\ OnlyError("User is currently busy")
                 /\ waitingQueue' = waitingQueue]_vars

\* (a nurse called a patient that is busy)
C22_Witness ==
  /\ lastEvent.type = "callUser" /\ ~lastEvent.changed
  /\ lastEvent.id \in Ids
  /\ UsersGet(users, lastEvent.socket).role = "nurse"
  /\ getUserById(Cur, lastEvent.id).role = "patient"
  /\ getUserById(Cur, lastEvent.id).busy
  /\ ~Queued(UsersGet(users, lastEvent.socket).id)
  /\ emitted = <<Msg(lastEvent.socket, "error",
                     [message |-> "User is currently busy"])>>

\* The number of replies (callStarted, callWaiting, error) sent to socket s.
Replies(em, s) ==
  Cardinality({i \in 1..Len(em) :
                 em[i].to = s /\ em[i].event \in
                   {"callStarted", "callWaiting", "error"}})

\* C23 (as stated): every callUser emits exactly one of callStarted,
\* callWaiting or error to the sender; whenever the outcome is Started the
\* target receives incomingCall, and whenever the outcome is Queued the
\* target receives waitingPatient.
C23_CallUserReplies ==
  [][LET s == lastEvent'.socket
         callee == getUserById(Cur, lastEvent'.id)
     IN Handled("callUser")
        => /\ Replies(emitted', s) = 1
           /\ Outcome(emitted', s) = "Started"
              => Has(emitted', callee.socketId, "incomingCall")
           /\ Outcome(emitted', s) = "Queued"
              => Has(emitted', callee.socketId, "waitingPatient")]_vars

\* C23 (amended): every callUser emits exactly one of callStarted,
\* callWaiting or error to the sender; whenever the outcome is Started the
\* target receives incomingCall; whenever the outcome is Queued and the
\* sender was not in the queue before, the target receives waitingPatient,
\* and when the sender was already in the queue no waitingPatient is sent.
C23_CallUserRepliesAmended ==
  [][LET s == lastEvent'.socket
         caller == UsersGet(users, s)
         callee == getUserById(Cur, lastEvent'.id)
     IN Handled("callUser")
        => /\ Replies(emitted', s) = 1
           /\ Outcome(emitted', s) = "Started"
              => Has(emitted', callee.socketId, "incomingCall")
           /\ (Outcome(emitted', s) = "Queued" /\ ~Queued(caller.id))
              => Has(emitted', callee.socketId, "waitingPatient")
           /\ (Outcome(emitted', s) = "Queued" /\ Queued(caller.id))
              => \A i \in 1..Len(emitted') :
                   emitted'[i].event # "waitingPatient"]_vars

\* (an idle patient that was already waiting called the busy nurse again)
C23_Witness ==
  /\ lastEvent.type = "callUser" /\ ~lastEvent.changed
  /\ lastEvent.id \in Ids
  /\ Outcome(emitted, lastEvent.socket) = "Queued"
  /\ ~UsersGet(users, lastEvent.socket).busy
  /\ getUserById(Cur, lastEvent.id).role = "nurse"
  /\ getUserById(Cur, lastEvent.id).busy
  /\ \A i \in 1..Len(emitted) : emitted[i].event # "waitingPatient"

RelayTypes == {"offer", "answer", "ice-candidate", "chatMessage"}

\* C24: offer, answer, ice-candidate and chatMessage never change the
\* directory, the call map or the queue, and when the sending connection
\* has no directory entry or the target id does not resolve they emit no
\* message to anyone, the sender included.
C24_RelayFrame ==
  [][LET from == UsersGet(users, lastEvent'.socket)
         target == getUserById(Cur, lastEvent'.id)
     IN (lastEvent'.type \in RelayTypes /\ nEvents' = nEvents + 1)
        => /\ StateUnchanged
           /\ (from = NoUser \/ target = NoUser) => emitted' = <<>>]_vars

\* (a registered sender named an id that resolves to no directory entry)
C24_Witness ==
  /\ lastEvent.type \in RelayTypes
  /\ UsersGet(users, lastEvent.socket) # NoUser
  /\ lastEvent.id \in Ids
  /\ getUserById(Cur, lastEvent.id) = NoUser
  /\ emitted = <<>>

\* The payload field of a relayed message.
PayloadOf(m) ==
  IF m.event = "offer" THEN m.data.offer
  ELSE IF m.event = "answer" THEN m.data.answer
  ELSE IF m.event = "ice-candidate" THEN m.data.candidate
  ELSE m.data.message

\* C25: when the sender has a directory entry and the target id resolves, a
\* relay event emits exactly one message, of the same kind, to the
\* connection of the participant whose id is the named target and to no
\* other connection, carrying the payload unchanged and the sender's
\* registered id as its origin.
C25_RelayDelivers ==
  [][LET from == UsersGet(users, lastEvent'.socket)
         target == getUserById(Cur, lastEvent'.id)
     IN (/\ lastEvent'.type \in RelayTypes /\ nEvents' = nEvents + 1
         /\ from # NoUser /\ target # NoUser)
        => /\ Len(emitted') = 1
           /\ emitted'[1].event = lastEvent'.type
           /\ emitted'[1].to \in Sockets
           /\ UsersGet(users, emitted'[1].to).id = lastEvent'.id
           /\ PayloadOf(emitted'[1]) = lastEvent'.payload
           /\ emitted'[1].data.from = from.id]_vars

\* C26: every event that changes the directory (a registration, a call
\* start that sets busy, an endCall that clears busy, a disconnect that
\* removes an entry) emits an onlineUsers broadcast to all connections, and
\* the last one it emits lists the {id, role, busy} entries of the
\* directory as the event left it; the last broadcast emitted so far always
\* equals the current directory.
C26_SnapshotFollowsChange ==
  [][/\ users' # users
        => /\ Snapshots(emitted') # {}
           /\ emitted'[Max(Snapshots(emitted'))].to = Everyone
           /\ emitted'[Max(Snapshots(emitted'))].data.list
                = getOnlineUsers(Next1)
     /\ lastSnapshot' = getOnlineUsers(Next1)]_vars

\* (a participant in a call disconnected: two broadcasts, the last one
\* without it and with its partner idle)
C26_Witness ==
  /\ lastEvent.type = "disconnect"
  /\ Cardinality(Snapshots(emitted)) = 2
  /\ Len(users) > 0
  /\ \A i \in 1..Len(users) : ~users[i].busy
  /\ Has(emitted, users[1].socketId, "callEnded")
  /\ lastSnapshot = getOnlineUsers(Cur)
  /\ lastSnapshot # emitted[Min0(Snapshots(emitted))].data.list

\* C27: within each event every outbound message is emitted only after all
\* of that event's state changes are made; in particular no onlineUsers
\* broadcast emitted while handling a disconnect lists the disconnecting
\* participant.
C27_EmitAfterCommit ==
  [][LET user == UsersGet(users, lastEvent'.socket)
     IN (Handled("disconnect") /\ user # NoUser)
        => \A i \in Snapshots(emitted') :
             \A k \in 1..Len(emitted'[i].data.list) :
               emitted'[i].data.list[k].id # user.id]_vars

\* C28: every call binding pairs a patient with a nurse: whenever the call
\* map binds a to b, the participants that a and b resolve to in the
\* directory have different roles.
C28_BindingPairsRoles ==
  \A a \in Ids :
    activeCalls[a] # NoId
    => LET ua == getUserById(Cur, a)
           ub == getUserById(Cur, activeCalls[a])
       IN (ua # NoUser /\ ub # NoUser) => ua.role # ub.role

\* C29: every call binding refers only to registered participants: each id
\* that is a key or a partner value of the call map resolves to a
\* directory entry.
C29_BindingsAreLive ==
  \A a \in Ids :
    activeCalls[a] # NoId
    => /\ getUserById(Cur, a) # NoUser
       /\ getUserById(Cur, activeCalls[a]) # NoUser

\* C30: no event from any connection, registered or not, makes a handler
\* raise an uncaught exception.
C30_NoUncaught == ~uncaught

\* C31: each id in the waiting queue resolves in the directory to a
\* participant whose id is that id and whose role is patient.
C31_QueuedAreLivePatients ==
  \A i \in 1..Len(waitingQueue) :
    LET user == getUserById(Cur, waitingQueue[i])
    IN user # NoUser /\ user.id = waitingQueue[i] /\ user.role = "patient"

\* C32: the two directory indexes are mutually consistent: the id index
\* sends id to socket c if and only if the directory holds an entry for c
\* whose id is that id, so getUserById(id) either finds nothing or returns
\* a participant whose id is id.
C32_IndexesConsistent ==
  /\ \A id \in Ids, c \in Sockets :
       userSockets[id] = c <=> UsersGet(users, c).id = id
  /\ \A id \in Ids :
       getUserById(Cur, id) = NoUser \/ getUserById(Cur, id).id = id

\* C33: whenever every connection that ever registered has disconnected,
\* the directory, the id index, the call map and the waiting queue are all
\* empty (so that any id used before can be registered again).
C33_AllReleased ==
  (\A c \in Sockets : registeredVia[c] # {} => c \in closed)
  => /\ users = <<>>
     /\ \A id \in Ids : userSockets[id] = NoSocket
     /\ \A id \in Ids : activeCalls[id] = NoId
     /\ waitingQueue = <<>>

\* The id that endCall(userId) is applied to by the last event: the sender
\* of a matching endCall event, or the participant of a disconnecting
\* socket; NoId when the event does not call endCall.
Ended ==
  LET user == UsersGet(users, lastEvent'.socket)
  IN IF user = NoUser THEN NoId
     ELSE IF Handled("endCall") /\ pairMatches(Cur, user, lastEvent'.id)
     THEN user.id
     ELSE IF Handled("disconnect") /\ activeCalls[user.id] # NoId
     THEN user.id
     ELSE NoId

\* C34: when endCall(id) is applied to an id with an active call to partner
\* p, afterwards neither id nor p has a call binding and both have busy =
\* false if still registered; when id has no active call nothing changes
\* and no message is emitted, not even an onlineUsers broadcast.
C34_EndCallReleasesBoth ==
  [][/\ (Ended # NoId /\ activeCalls[Ended] # NoId)
        => LET p == activeCalls[Ended]
           IN /\ activeCalls'[Ended] = NoId
              /\ activeCalls'[p] = NoId
              /\ ~Busy(Next1, Ended)
              /\ ~Busy(Next1, p)
     /\ (/\ Handled("endCall")
         /\ UsersGet(users, lastEvent'.socket) # NoUser
         /\ activeCalls[UsersGet(users, lastEvent'.socket).id] = NoId)
        => StateUnchanged /\ emitted' = <<>>]_vars

\* (an endCall event released a call: both members are registered, idle
\* and unbound, and the partner was told)
C34_Witness ==
  /\ lastEvent.type = "endCall" /\ lastEvent.changed
  /\ lastEvent.id \in Ids
  /\ UsersGet(users, lastEvent.socket) # NoUser
  /\ getUserById(Cur, lastEvent.id) # NoUser
  /\ ~UsersGet(users, lastEvent.socket).busy
  /\ ~getUserById(Cur, lastEvent.id).busy
  /\ activeCalls[UsersGet(users, lastEvent.socket).id] = NoId
  /\ activeCalls[lastEvent.id] = NoId
  /\ Has(emitted, getUserById(Cur, lastEvent.id).socketId, "callEnded")
  /\ Snapshots(emitted) # {}

====
